---------------------------- MODULE Spec2Model ----------------------------
(***************************************************************************)
(* Model of src/main.py: the message-content extraction                    *)
(* (decode_email_content, get_email_content) and the lexical analysis      *)
(* (get_word_pos_tags, create_word_frequency_table,                        *)
(* save_word_frequency_csv).                                               *)
(*                                                                         *)
(* A Python str is a sequence of Unicode code points (integers), a bytes   *)
(* object a sequence of integers in 0..255, a dict a function whose        *)
(* domain is its set of keys, a list a sequence.  A call either returns a  *)
(* value or raises: Return(v) and Raise(msg).                              *)
(***************************************************************************)
EXTENDS Integers, Sequences, FiniteSets, TLC

VARIABLES
    pc,         \* position of the run: which call has been made
    email,      \* get_email_content: the message, {'payload': Part}
    result,     \* get_email_content: outcome of the call
    x,          \* round trip: the text that was encoded
    cut,        \* round trip: number of trailing '=' removed from the encoding
    data,       \* decode_email_content: its argument
    decoded,    \* decode_email_content: outcome of the call
    text,       \* create_word_frequency_table: its argument
    tagger,     \* behaviour of the external syntax service during the call
    locals,     \* create_word_frequency_table: its local variables at return
    word_freq,  \* create_word_frequency_table: outcome of the call
    rows        \* save_word_frequency_csv: rows written to the CSV file

vars == <<pc, email, result, x, cut, data, decoded, text, tagger, locals, word_freq, rows>>

(***************************************************************************)
(* Bounds of the model.                                                    *)
(***************************************************************************)
MaxParts == 3       \* number of Parts in a message's Part tree
MaxTextLen == 3     \* code points in a round-trip text
MaxChunks == 3      \* chunks concatenated into an analysed text

(***************************************************************************)
(* Python call outcomes and generic sequence helpers.                      *)
(***************************************************************************)
Return(v) == [raised |-> FALSE, val |-> v]
Raise(msg) == [raised |-> TRUE, val |-> msg]
None == [raised |-> FALSE, val |-> "None"]

RECURSIVE Repeat(_, _)
Repeat(c, n) == IF n <= 0 THEN <<>> ELSE <<c>> \o Repeat(c, n - 1)

\* sep.join(list)
RECURSIVE Join(_, _)
Join(sep, list) ==
    IF list = <<>> THEN <<>>
    ELSE IF Len(list) = 1 THEN list[1]
    ELSE list[1] \o sep \o Join(sep, Tail(list))

\* s.startswith(prefix)
StartsWith(s, prefix) ==
    /\ Len(s) >= Len(prefix)
    /\ SubSeq(s, 1, Len(prefix)) = prefix

\* s[i:] with a 1-based i
From(s, i) == SubSeq(s, i, Len(s))

\* str(n) for a natural number n
RECURSIVE StrOfNat(_)
StrOfNat(n) == IF n < 10 THEN <<48 + n>> ELSE StrOfNat(n \div 10) \o <<48 + (n % 10)>>

(***************************************************************************)
(* String literals of the program, as code points.                         *)
(***************************************************************************)
NL == 10
\* 'text/'
TextPrefix == <<116, 101, 120, 116, 47>>
\* '[Attachment not downloaded]'
AttachmentMarker ==
    <<91, 65, 116, 116, 97, 99, 104, 109, 101, 110, 116, 32, 110, 111, 116, 32,
      100, 111, 119, 110, 108, 111, 97, 100, 101, 100, 93>>
\* 'No readable content available'
NoContent ==
    <<78, 111, 32, 114, 101, 97, 100, 97, 98, 108, 101, 32, 99, 111, 110, 116,
      101, 110, 116, 32, 97, 118, 97, 105, 108, 97, 98, 108, 101>>
\* 'Error decoding content: '
ErrorPrefix ==
    <<69, 114, 114, 111, 114, 32, 100, 101, 99, 111, 100, 105, 110, 103, 32, 99,
      111, 110, 116, 101, 110, 116, 58, 32>>

(***************************************************************************)
(* base64.b64decode(content) of the standard library, as called on line    *)
(* 97: validate is False, so characters outside the alphabet are skipped.  *)
(***************************************************************************)
\* binascii.Error('Incorrect padding')
IncorrectPadding ==
    <<73, 110, 99, 111, 114, 114, 101, 99, 116, 32, 112, 97, 100, 100, 105, 110, 103>>
\* binascii.Error('Invalid base64-encoded string: number of data characters
\* (n) cannot be 1 more than a multiple of 4')
InvalidLength(n) ==
    <<73, 110, 118, 97, 108, 105, 100, 32, 98, 97, 115, 101, 54, 52, 45, 101, 110,
      99, 111, 100, 101, 100, 32, 115, 116, 114, 105, 110, 103, 58, 32, 110, 117,
      109, 98, 101, 114, 32, 111, 102, 32, 100, 97, 116, 97, 32, 99, 104, 97, 114,
      97, 99, 116, 101, 114, 115, 32, 40>>
    \o StrOfNat(n) \o
    <<41, 32, 99, 97, 110, 110, 111, 116, 32, 98, 101, 32, 49, 32, 109, 111, 114,
      101, 32, 116, 104, 97, 110, 32, 97, 32, 109, 117, 108, 116, 105, 112, 108,
      101, 32, 111, 102, 32, 52>>
\* ValueError('string argument should contain only ASCII characters')
NotAscii ==
    <<115, 116, 114, 105, 110, 103, 32, 97, 114, 103, 117, 109, 101, 110, 116, 32,
      115, 104, 111, 117, 108, 100, 32, 99, 111, 110, 116, 97, 105, 110, 32, 111,
      110, 108, 121, 32, 65, 83, 67, 73, 73, 32, 99, 104, 97, 114, 97, 99, 116,
      101, 114, 115>>

\* value of a character in the standard alphabet A-Z a-z 0-9 + /, 64 if none
B64Value(c) ==
    IF c \in 65..90 THEN c - 65
    ELSE IF c \in 97..122 THEN c - 71
    ELSE IF c \in 48..57 THEN c + 4
    ELSE IF c = 43 THEN 62
    ELSE IF c = 47 THEN 63
    ELSE 64

\* binascii.a2b_base64 in non-strict mode: the loop over the characters
RECURSIVE A2bBase64(_, _, _, _, _, _)
A2bBase64(s, i, quad_pos, leftchar, pads, out) ==
    IF i > Len(s) THEN
        IF quad_pos = 0 THEN Return(out)
        ELSE IF quad_pos = 1 THEN Raise(InvalidLength((Len(out) \div 3) * 4 + 1))
        ELSE Raise(IncorrectPadding)
    ELSE IF s[i] = 61 THEN
        IF quad_pos >= 2 /\ quad_pos + pads + 1 >= 4 THEN Return(out)
        ELSE A2bBase64(s, i + 1, quad_pos, leftchar,
                       IF quad_pos >= 2 THEN pads + 1 ELSE pads, out)
    ELSE IF B64Value(s[i]) >= 64 THEN
        A2bBase64(s, i + 1, quad_pos, leftchar, pads, out)
    ELSE LET v == B64Value(s[i]) IN
        CASE quad_pos = 0 -> A2bBase64(s, i + 1, 1, v, 0, out)
          [] quad_pos = 1 ->
                A2bBase64(s, i + 1, 2, v % 16, 0,
                          Append(out, leftchar * 4 + (v \div 16)))
          [] quad_pos = 2 ->
                A2bBase64(s, i + 1, 3, v % 4, 0,
                          Append(out, leftchar * 16 + (v \div 4)))
          [] quad_pos = 3 ->
                A2bBase64(s, i + 1, 0, 0, 0, Append(out, leftchar * 64 + v))

B64Decode(s) ==
    IF \E i \in 1..Len(s) : s[i] > 127 THEN Raise(NotAscii)
    ELSE A2bBase64(s, 1, 0, 0, 0, <<>>)

(***************************************************************************)
(* bytes.decode('utf-8', errors='ignore') as called on line 97: a          *)
(* well-formed sequence gives its code point, an ill-formed one is         *)
(* dropped up to the byte that breaks it.                                  *)
(***************************************************************************)
IsCont(b, i, lo, hi) == i <= Len(b) /\ b[i] >= lo /\ b[i] <= hi

RECURSIVE Utf8Decode(_, _)
Utf8Decode(b, i) ==
    IF i > Len(b) THEN <<>>
    ELSE LET c == b[i] IN
        IF c < 128 THEN <<c>> \o Utf8Decode(b, i + 1)
        ELSE IF c \in 194..223 THEN
            IF IsCont(b, i + 1, 128, 191)
            THEN <<(c - 192) * 64 + (b[i + 1] - 128)>> \o Utf8Decode(b, i + 2)
            ELSE Utf8Decode(b, i + 1)
        ELSE IF c \in 224..239 THEN
            LET lo == IF c = 224 THEN 160 ELSE 128
                hi == IF c = 237 THEN 159 ELSE 191
            IN  IF ~IsCont(b, i + 1, lo, hi) THEN Utf8Decode(b, i + 1)
                ELSE IF ~IsCont(b, i + 2, 128, 191) THEN Utf8Decode(b, i + 2)
                ELSE <<(c - 224) * 4096 + (b[i + 1] - 128) * 64 + (b[i + 2] - 128)>>
                     \o Utf8Decode(b, i + 3)
        ELSE IF c \in 240..244 THEN
            LET lo == IF c = 240 THEN 144 ELSE 128
                hi == IF c = 244 THEN 143 ELSE 191
            IN  IF ~IsCont(b, i + 1, lo, hi) THEN Utf8Decode(b, i + 1)
                ELSE IF ~IsCont(b, i + 2, 128, 191) THEN Utf8Decode(b, i + 2)
                ELSE IF ~IsCont(b, i + 3, 128, 191) THEN Utf8Decode(b, i + 3)
                ELSE <<(c - 240) * 262144 + (b[i + 1] - 128) * 4096
                       + (b[i + 2] - 128) * 64 + (b[i + 3] - 128)>>
                     \o Utf8Decode(b, i + 4)
        ELSE Utf8Decode(b, i + 1)

(***************************************************************************)
(* decode_email_content                                                    *)
(***************************************************************************)
\* line 90: the number of '=' appended
Padding(content) ==
    IF Len(content) % 4 /= 0 THEN 4 - (Len(content) % 4) ELSE 0

\* variant (not the code): only '-' is translated
ReplaceUrlSafeDashOnly(content) ==
    [i \in 1..Len(content) |-> IF content[i] = 45 THEN 43 ELSE content[i]]

\* line 94: content.replace('-', '+').replace('_', '/')
ReplaceUrlSafe(content) ==
    [i \in 1..Len(content) |->
        IF content[i] = 45 THEN 43
        ELSE IF content[i] = 95 THEN 47
        ELSE content[i]]

\* lines 90-98: the body of the try block
DecodeBody(content) ==
    LET padded == content \o Repeat(61, Padding(content))
        bytes == B64Decode(ReplaceUrlSafe(padded))
    IN  IF bytes.raised THEN bytes ELSE Return(Utf8Decode(bytes.val, 1))

\* variant (not the code): the try block without its except clause
DecodeEmailContentNoExcept(content) == DecodeBody(content)

\* lines 86-100: except Exception turns the error into a string
DecodeEmailContent(content) ==
    LET r == DecodeBody(content)
    IN  IF r.raised THEN Return(ErrorPrefix \o r.val) ELSE r

(***************************************************************************)
(* get_email_content                                                       *)
(***************************************************************************)
\* part.get('mimeType', '')
MimeTypeOf(part) == IF "mimeType" \in DOMAIN part THEN part.mimeType ELSE <<>>

\* lines 107-115: extract_content appends to the enclosing list `content`;
\* acc is that list, or the exception that is propagating
ExtractContent(part, acc) ==
    IF acc.raised THEN acc
    ELSE IF "body" \in DOMAIN part THEN
        IF "data" \in DOMAIN part.body THEN
            LET d == DecodeEmailContent(part.body.data)
            IN  IF d.raised THEN d
                ELSE IF d.val /= <<>> THEN Return(Append(acc.val, d.val))
                ELSE acc
        ELSE IF "attachmentId" \in DOMAIN part.body THEN
            Return(Append(acc.val, AttachmentMarker))
        ELSE acc
    ELSE acc

RECURSIVE ProcessParts(_, _), ProcessPartsLoop(_, _, _)

\* variant (not the code): the body of every Part is extracted, whatever its mimeType
ProcessPartsAnyType(part, acc) ==
    LET own == ExtractContent(part, acc)
    IN  IF "parts" \in DOMAIN part THEN ProcessPartsLoop(part.parts, 1, own) ELSE own

\* variant (not the code): the children are visited before the Part's own body
ProcessPartsChildrenFirst(part, acc) ==
    LET below == IF "parts" \in DOMAIN part
                 THEN ProcessPartsLoop(part.parts, 1, acc)
                 ELSE acc
    IN  IF StartsWith(MimeTypeOf(part), TextPrefix)
        THEN ExtractContent(part, below)
        ELSE below

\* lines 118-126: process_parts, and its loop over part['parts'] from index i
ProcessParts(part, acc) ==
    LET own == IF StartsWith(MimeTypeOf(part), TextPrefix)
               THEN ExtractContent(part, acc)
               ELSE acc
    IN  IF "parts" \in DOMAIN part THEN ProcessPartsLoop(part.parts, 1, own) ELSE own

ProcessPartsLoop(parts, i, acc) ==
    IF acc.raised \/ i > Len(parts) THEN acc
    ELSE ProcessPartsLoop(parts, i + 1, ProcessParts(parts[i], acc))

\* lines 102-135
GetEmailContent(e) ==
    LET payload == e.payload
        walked == ProcessParts(payload, Return(<<>>))
        content == IF ~walked.raised /\ walked.val = <<>> /\ "body" \in DOMAIN payload
                   THEN ExtractContent(payload, walked)
                   ELSE walked
    IN  IF content.raised THEN content
        ELSE IF content.val /= <<>> THEN Return(Join(<<NL>>, content.val))
        ELSE Return(NoContent)

(***************************************************************************)
(* The messages a run is given: every Part tree of at most MaxParts Parts  *)
(* whose Parts draw an optional mimeType and an optional body              *)
(* independently.                                                          *)
(***************************************************************************)
Absent == <<>>      \* a dict without the key: the function with no argument

MimeTypes ==
    { <<116, 101, 120, 116, 47, 112, 108, 97, 105, 110>>,       \* 'text/plain'
      <<109, 117, 108, 116, 105, 112, 97, 114, 116, 47, 109, 105, 120, 101, 100>> }
                                                                \* 'multipart/mixed'
DataValues ==
    { <<83, 71, 107>>,      \* 'SGk': 'Hi' without its padding
      <<95, 119>>,          \* '_w': the byte 0xFF, which is no UTF-8 text
      <<81>> }              \* 'Q': one character, no base64 length
AttachmentIds == { <<97, 49>> }      \* 'a1'
Bodies ==
    {[data |-> d] : d \in DataValues}
    \cup {[attachmentId |-> a] : a \in AttachmentIds}
    \cup {[data |-> <<83, 71, 107>>, attachmentId |-> a] : a \in AttachmentIds}

PartHeads ==
    { m @@ b : m \in {Absent} \cup {[mimeType |-> t] : t \in MimeTypes},
               b \in {Absent} \cup {[body |-> y] : y \in Bodies} }

\* The shapes of the trees of n Parts, the Parts numbered in pre-order:
\* parent[i] is the number of the Part whose 'parts' list holds Part i (0 for
\* the root), and is Part i - 1 or one of the Parts above it.
RECURSIVE IsAbove(_, _, _)
IsAbove(parent, a, i) ==
    IF i = 0 THEN FALSE ELSE a = i \/ IsAbove(parent, a, parent[i])

TreeShapes(n) ==
    { parent \in [1..n -> 0..(n - 1)] :
        /\ parent[1] = 0
        /\ \A i \in 2..n : IsAbove(parent, parent[i], i - 1) }

\* the numbers, in increasing order, of the Parts from j on whose parent is i
RECURSIVE ChildrenOf(_, _, _)
ChildrenOf(parent, i, j) ==
    IF j > Len(parent) THEN <<>>
    ELSE (IF parent[j] = i THEN <<j>> ELSE <<>>) \o ChildrenOf(parent, i, j + 1)

\* the Part numbered i of the tree of shape parent whose Parts have the
\* keys heads[1], heads[2], ... : a leaf has no 'parts' key
RECURSIVE PartTree(_, _, _)
PartTree(parent, heads, i) ==
    LET kids == ChildrenOf(parent, i, i + 1)
    IN  IF kids = <<>> THEN heads[i]
        ELSE heads[i] @@
             [parts |-> [k \in 1..Len(kids) |-> PartTree(parent, heads, kids[k])]]

(***************************************************************************)
(* The run that extracts one message (save_emails, line 265).              *)
(***************************************************************************)
Init ==
    /\ pc = "extract"
    /\ \E n \in 1..MaxParts : \E parent \in TreeShapes(n) : \E heads \in [1..n -> PartHeads] :
          email = [payload |-> PartTree(parent, heads, 1)]
    /\ result = None
    /\ x = None /\ cut = None /\ data = None /\ decoded = None
    /\ text = None /\ tagger = None /\ locals = None /\ word_freq = None /\ rows = None

CallGetEmailContent ==
    /\ pc = "extract"
    /\ result' = GetEmailContent(email)
    /\ pc' = "extracted"
    /\ UNCHANGED <<email, x, cut, data, decoded, text, tagger, locals, word_freq, rows>>

Next == CallGetEmailContent

Spec == Init /\ [][Next]_vars

(***************************************************************************)
(* The run that decodes one leaf body: the base64url encoding (RFC 4648,   *)
(* URL-safe alphabet, padded) of a text, given to decode_email_content     *)
(* with some of its trailing padding removed, as a message store sends it. *)
(***************************************************************************)
\* str.encode('utf-8') of one code point
Utf8EncodeChar(c) ==
    IF c < 128 THEN <<c>>
    ELSE IF c < 2048 THEN <<192 + (c \div 64), 128 + (c % 64)>>
    ELSE IF c < 65536 THEN
        <<224 + (c \div 4096), 128 + ((c \div 64) % 64), 128 + (c % 64)>>
    ELSE <<240 + (c \div 262144), 128 + ((c \div 4096) % 64),
           128 + ((c \div 64) % 64), 128 + (c % 64)>>

RECURSIVE Utf8Encode(_)
Utf8Encode(s) ==
    IF s = <<>> THEN <<>> ELSE Utf8EncodeChar(Head(s)) \o Utf8Encode(Tail(s))

\* the character of a 6-bit value in the URL-safe alphabet A-Z a-z 0-9 - _
UrlSafeChar(v) ==
    IF v < 26 THEN 65 + v
    ELSE IF v < 52 THEN 71 + v
    ELSE IF v < 62 THEN v - 4
    ELSE IF v = 62 THEN 45
    ELSE 95

\* base64.urlsafe_b64encode: three bytes give four characters, a last group
\* of one or two bytes is padded with '='
RECURSIVE UrlSafeB64Encode(_)
UrlSafeB64Encode(b) ==
    IF b = <<>> THEN <<>>
    ELSE IF Len(b) = 1 THEN
        <<UrlSafeChar(b[1] \div 4), UrlSafeChar((b[1] % 4) * 16), 61, 61>>
    ELSE IF Len(b) = 2 THEN
        <<UrlSafeChar(b[1] \div 4), UrlSafeChar((b[1] % 4) * 16 + (b[2] \div 16)),
          UrlSafeChar((b[2] % 16) * 4), 61>>
    ELSE <<UrlSafeChar(b[1] \div 4), UrlSafeChar((b[1] % 4) * 16 + (b[2] \div 16)),
           UrlSafeChar((b[2] % 16) * 4 + (b[3] \div 64)), UrlSafeChar(b[3] % 64)>>
         \o UrlSafeB64Encode(From(b, 4))

\* s without n of its trailing '=' (without all of them if it has fewer)
RECURSIVE RemovePadding(_, _)
RemovePadding(s, n) ==
    IF n = 0 \/ s = <<>> \/ s[Len(s)] /= 61 THEN s
    ELSE RemovePadding(SubSeq(s, 1, Len(s) - 1), n - 1)

\* the code points the texts are made of: 'A', '>', '?', U+00E9, U+20AC,
\* U+1F600 (one to four bytes of UTF-8; '>' and '?' give '-' and '_')
TextAlphabet == {65, 62, 63, 233, 8364, 128512}
Texts == UNION { [1..n -> TextAlphabet] : n \in 0..MaxTextLen }

InitDecode ==
    /\ pc = "decode"
    /\ x \in Texts
    /\ cut \in 0..3
    /\ data = RemovePadding(UrlSafeB64Encode(Utf8Encode(x)), cut)
    /\ decoded = None
    /\ email = None /\ result = None
    /\ text = None /\ tagger = None /\ locals = None /\ word_freq = None /\ rows = None

CallDecodeEmailContent ==
    /\ pc = "decode"
    /\ decoded' = DecodeEmailContent(data)
    /\ pc' = "decoded"
    /\ UNCHANGED <<email, result, x, cut, data, text, tagger, locals, word_freq, rows>>

NextDecode == CallDecodeEmailContent

SpecDecode == InitDecode /\ [][NextDecode]_vars

(***************************************************************************)
(* Character classes of Python's str methods and of the re module, for the *)
(* code points below 256 (the texts of the model are Latin-1).             *)
(***************************************************************************)
\* c.isalnum()
IsAlnum(c) ==
    \/ c \in 48..57 \/ c \in 65..90 \/ c \in 97..122
    \/ c \in {170, 178, 179, 181, 185, 186, 188, 189, 190}
    \/ c \in 192..214 \/ c \in 216..246 \/ c \in 248..255

\* \w of a str pattern: alphanumeric or '_'
IsWordChar(c) == IsAlnum(c) \/ c = 95

\* the characters str.strip() removes
IsSpace(c) == c \in 9..13 \/ c \in 28..32 \/ c \in {133, 160}

\* c.lower()
LowerChar(c) ==
    IF c \in 65..90 \/ c \in 192..214 \/ c \in 216..222 THEN c + 32 ELSE c

\* s.lower()
Lower(s) == [i \in 1..Len(s) |-> LowerChar(s[i])]

\* word.isalnum()
IsAlnumStr(s) == s /= <<>> /\ \A i \in 1..Len(s) : IsAlnum(s[i])

\* the first index from i on at which s holds c, 0 if there is none
RECURSIVE IndexOf(_, _, _)
IndexOf(s, c, i) ==
    IF i > Len(s) THEN 0 ELSE IF s[i] = c THEN i ELSE IndexOf(s, c, i + 1)

\* whether s holds the string t at index i
HasAt(s, t, i) == i + Len(t) - 1 <= Len(s) /\ SubSeq(s, i, i + Len(t) - 1) = t

(***************************************************************************)
(* create_word_frequency_table: the cleaning of the text.                  *)
(***************************************************************************)
\* line 186: re.sub(r'<[^>]+>', '', content), scanning from index i.  A
\* match is '<', one or more characters that are not '>', and the first
\* '>' after them.
RECURSIVE StripTags(_, _)
StripTags(content, i) ==
    IF i > Len(content) THEN <<>>
    ELSE LET close == IndexOf(content, 62, i + 2)
         IN  IF content[i] = 60 /\ i < Len(content) /\ content[i + 1] /= 62 /\ close /= 0
             THEN StripTags(content, close + 1)
             ELSE <<content[i]>> \o StripTags(content, i + 1)

\* line 189: a character of [a-zA-Z], [0-9], [$-_@.&+] or [!*\\(\\),]; the
\* alternative %[0-9a-fA-F][0-9a-fA-F] is made of such characters
IsUrlChar(c) ==
    \/ c \in 97..122 \/ c \in 65..90
    \/ c \in 48..57
    \/ c \in 36..95 \/ c \in {64, 46, 38, 43}
    \/ c \in {33, 42, 92, 40, 41, 44}

\* line 189: the length of http[s]?:// at index i, 0 if it is not there
SchemeLen(content, i) ==
    IF HasAt(content, <<104, 116, 116, 112, 115, 58, 47, 47>>, i) THEN 8
    ELSE IF HasAt(content, <<104, 116, 116, 112, 58, 47, 47>>, i) THEN 7
    ELSE 0

\* the index after the run of URL characters that starts at index i
RECURSIVE UrlRunEnd(_, _)
UrlRunEnd(content, i) ==
    IF i <= Len(content) /\ IsUrlChar(content[i]) THEN UrlRunEnd(content, i + 1) ELSE i

\* variant (not the code): a URL is removed only as a whole, when the run of URL characters
\* ends at a space or at the end of the text
RECURSIVE StripUrlsWholeOnly(_, _)
StripUrlsWholeOnly(content, i) ==
    IF i > Len(content) THEN <<>>
    ELSE LET n == SchemeLen(content, i)
             end == UrlRunEnd(content, i + n)
         IN  IF n > 0 /\ end > i + n /\ (end > Len(content) \/ IsSpace(content[end]))
             THEN StripUrlsWholeOnly(content, end)
             ELSE <<content[i]>> \o StripUrlsWholeOnly(content, i + 1)

\* line 189: re.sub(r'http[s]?://(?:...)+', '', content), scanning from
\* index i.  A match is the scheme and the longest run of one or more URL
\* characters after it.
RECURSIVE StripUrls(_, _)
StripUrls(content, i) ==
    IF i > Len(content) THEN <<>>
    ELSE LET n == SchemeLen(content, i)
             end == UrlRunEnd(content, i + n)
         IN  IF n > 0 /\ end > i + n
             THEN StripUrls(content, end)
             ELSE <<content[i]>> \o StripUrls(content, i + 1)

\* line 192: content.split('\n')
RECURSIVE SplitLines(_)
SplitLines(content) ==
    LET nl == IndexOf(content, NL, 1)
    IN  IF nl = 0 THEN <<content>>
        ELSE <<SubSeq(content, 1, nl - 1)>> \o SplitLines(From(content, nl + 1))

\* line 195: line.strip()
RECURSIVE Strip(_)
Strip(line) ==
    IF line = <<>> THEN line
    ELSE IF IsSpace(Head(line)) THEN Strip(Tail(line))
    ELSE IF IsSpace(line[Len(line)]) THEN Strip(SubSeq(line, 1, Len(line) - 1))
    ELSE line

\* line 195: "Subscription Information"
Marker ==
    <<83, 117, 98, 115, 99, 114, 105, 112, 116, 105, 111, 110, 32, 73, 110, 102,
      111, 114, 109, 97, 116, 105, 111, 110>>

\* variant (not the code): the marker line is skipped and the loop goes on (continue for break)
RECURSIVE ContentLinesContinue(_)
ContentLinesContinue(lines) ==
    IF lines = <<>> THEN <<>>
    ELSE IF Strip(Head(lines)) = Marker THEN ContentLinesContinue(Tail(lines))
    ELSE <<Head(lines)>> \o ContentLinesContinue(Tail(lines))

\* lines 193-197: the lines before the first marker line
RECURSIVE ContentLines(_)
ContentLines(lines) ==
    IF lines = <<>> THEN <<>>
    ELSE IF Strip(Head(lines)) = Marker THEN <<>>
    ELSE <<Head(lines)>> \o ContentLines(Tail(lines))

(***************************************************************************)
(* get_word_pos_tags.  The syntax service is outside the program: a        *)
(* behaviour of it says whether loading the credentials fails, whether     *)
(* analyze_syntax raises, and which tokens the response holds.             *)
(***************************************************************************)
EmptyDict == <<>>

\* language_v1.PartOfSpeech.Tag: the names of the values 0..13
TagNames ==
    <<"UNKNOWN", "ADJ", "ADP", "ADV", "CONJ", "DET", "NOUN", "NUM", "PRON", "PRT",
      "PUNCT", "VERB", "X", "AFFIX">>

\* lines 164-168: the loop over response.tokens from index i; Tag(n) raises
\* for an n that is no value of the enum
RECURSIVE WordPosLoop(_, _, _)
WordPosLoop(tokens, i, word_pos) ==
    IF i > Len(tokens) THEN Return(word_pos)
    ELSE IF tokens[i].tag + 1 \notin DOMAIN TagNames THEN Raise("ValueError")
    ELSE WordPosLoop(tokens, i + 1,
                     (Lower(tokens[i].content) :> TagNames[tokens[i].tag + 1]) @@ word_pos)

\* variant (not the code): an exception in the loop leaves the tags collected so far
RECURSIVE WordPosLoopPartial(_, _, _)
WordPosLoopPartial(tokens, i, word_pos) ==
    IF i > Len(tokens) THEN Return(word_pos)
    ELSE IF tokens[i].tag + 1 \notin DOMAIN TagNames THEN Return(word_pos)
    ELSE WordPosLoopPartial(tokens, i + 1,
                     (Lower(tokens[i].content) :> TagNames[tokens[i].tag + 1]) @@ word_pos)

GetWordPosTagsPartial(content, service) ==
    IF service.credentials = "error" \/ service.analyze = "error" THEN Return(EmptyDict)
    ELSE WordPosLoopPartial(service.tokens, 1, EmptyDict)

\* lines 137-181: both except clauses return {}
GetWordPosTags(content, service) ==
    IF service.credentials = "error" THEN Return(EmptyDict)
    ELSE IF service.analyze = "error" THEN Return(EmptyDict)
    ELSE LET r == WordPosLoop(service.tokens, 1, EmptyDict)
         IN  IF r.raised THEN Return(EmptyDict) ELSE r

(***************************************************************************)
(* create_word_frequency_table: the table.  A dict keeps its keys in       *)
(* insertion order: word_freq is the sequence of its entries.              *)
(***************************************************************************)
\* line 211: re.findall(r'\b\w+\b', s): the maximal runs of word characters
\* of s from index i on
RECURSIVE WordRunEnd(_, _), FindallWords(_, _)
WordRunEnd(s, i) ==
    IF i <= Len(s) /\ IsWordChar(s[i]) THEN WordRunEnd(s, i + 1) ELSE i

FindallWords(s, i) ==
    IF i > Len(s) THEN <<>>
    ELSE IF IsWordChar(s[i])
    THEN <<SubSeq(s, i, WordRunEnd(s, i) - 1)>> \o FindallWords(s, WordRunEnd(s, i))
    ELSE FindallWords(s, i + 1)

\* variant (not the code): the isalnum check is left out
KeepWordAnyWordChar(word) == ~(Len(word) <= 1)

\* lines 217-220: a word is counted if it has more than one character and
\* is alphanumeric
KeepWord(word) == ~(Len(word) <= 1) /\ IsAlnumStr(word)

\* the index of word's entry in word_freq, 0 if it has none
EntryOf(freq, word) ==
    IF \E i \in 1..Len(freq) : freq[i].word = word
    THEN CHOOSE i \in 1..Len(freq) : freq[i].word = word
    ELSE 0

\* line 222: word_pos_tags.get(word, 'UNKNOWN')
TagOf(word_pos_tags, word) ==
    IF word \in DOMAIN word_pos_tags THEN word_pos_tags[word] ELSE "UNKNOWN"

\* variant (not the code): a word that is already in the table is not counted again
CountWordOnce(freq, word, word_pos_tags) ==
    IF EntryOf(freq, word) = 0
    THEN Append(freq, [word |-> word, count |-> 1, pos |-> TagOf(word_pos_tags, word)])
    ELSE freq

\* lines 221-225: a new word is inserted with count 1 and its tag, a known
\* word has its count incremented
CountWord(freq, word, word_pos_tags) ==
    IF EntryOf(freq, word) = 0
    THEN Append(freq, [word |-> word, count |-> 1, pos |-> TagOf(word_pos_tags, word)])
    ELSE [freq EXCEPT ![EntryOf(freq, word)].count = @ + 1]

\* lines 214-225: the loop over words from index i
RECURSIVE CountWords(_, _, _, _)
CountWords(words, i, freq, word_pos_tags) ==
    IF i > Len(words) THEN freq
    ELSE CountWords(words, i + 1,
                    IF KeepWord(words[i]) THEN CountWord(freq, words[i], word_pos_tags)
                    ELSE freq,
                    word_pos_tags)

\* lines 183-227: the local variables of create_word_frequency_table when it
\* returns word_freq
CreateWordFrequencyTable(content, service) ==
    LET no_tags == StripTags(content, 1)
        no_urls == StripUrls(no_tags, 1)
        lines == SplitLines(no_urls)
        content_lines == ContentLines(lines)
        filtered_content == Join(<<NL>>, content_lines)
        tags == GetWordPosTags(filtered_content, service)
        word_pos_tags == IF tags.raised THEN EmptyDict ELSE tags.val
        words == FindallWords(Lower(filtered_content), 1)
    IN  [ no_tags |-> no_tags,
          no_urls |-> no_urls,
          lines |-> lines,
          filtered_content |-> filtered_content,
          word_pos_tags |-> word_pos_tags,
          words |-> words,
          word_freq |-> CountWords(words, 1, <<>>, word_pos_tags) ]

(***************************************************************************)
(* save_word_frequency_csv                                                 *)
(***************************************************************************)
\* items with item inserted after the last entry whose count is not smaller
RECURSIVE InsertByCount(_, _)
InsertByCount(items, item) ==
    IF items = <<>> THEN <<item>>
    ELSE IF Head(items).count >= item.count
    THEN <<Head(items)>> \o InsertByCount(Tail(items), item)
    ELSE <<item>> \o items

\* variant (not the code): the entries are sorted by ascending count and the list reversed
RECURSIVE InsertByCountReversed(_, _)
InsertByCountReversed(items, item) ==
    IF items = <<>> THEN <<item>>
    ELSE IF Head(items).count > item.count
    THEN <<Head(items)>> \o InsertByCountReversed(Tail(items), item)
    ELSE <<item>> \o items

RECURSIVE SortedReversed(_, _)
SortedReversed(freq, i) ==
    IF i > Len(freq) THEN <<>>
    ELSE InsertByCountReversed(SortedReversed(freq, i + 1), freq[i])

SortedByCountReversed(freq) ==
    LET r == SortedReversed(freq, 1)
    IN  [i \in 1..Len(r) |-> r[Len(r) + 1 - i]]

\* line 238: sorted(word_freq.items(), key=lambda x: x[1][0], reverse=True).
\* sorted is stable, also with reverse=True: entries of equal count keep
\* the order of the dict
RECURSIVE SortedUpTo(_, _)
SortedUpTo(freq, n) ==
    IF n = 0 THEN <<>>
    ELSE InsertByCount(SortedUpTo(freq, n - 1), freq[n])

SortedByCount(freq) == SortedUpTo(freq, Len(freq))

\* line 235: the header row
HeaderRow == <<"Word", "Frequency", "Part of Speech">>

\* lines 229-242: the rows written
SaveWordFrequencyCsv(freq) ==
    LET sorted_words == SortedByCount(freq)
    IN  <<HeaderRow>> \o
        [i \in 1..Len(sorted_words) |->
            <<sorted_words[i].word, sorted_words[i].count, sorted_words[i].pos>>]

(***************************************************************************)
(* The run that analyses one text (save_emails, lines 275-276).  A text is *)
(* made of at most MaxChunks chunks.                                       *)
(***************************************************************************)
Chunks ==
    { <<72, 105, 32>>,                                  \* 'Hi '
      <<121, 111, 32, 72, 105, 32>>,                    \* 'yo Hi '
      <<97, 95, 98, 32, 97, 32, 201, 57, 32>>,          \* 'a_b a ' U+00C9 '9 '
      <<32, 83, 117, 98, 115, 99, 114, 105, 112, 116, 105, 111, 110, 32, 73, 110,
        102, 111, 114, 109, 97, 116, 105, 111, 110, 9, 10>>,
                                                        \* ' Subscription Information\t\n'
      <<60, 98, 10>>,                                   \* '<b\n'
      <<62, 121, 111, 10>>,                             \* '>yo\n'
      <<104, 116, 116, 112, 58, 47, 47, 121, 111, 126, 104, 105, 32>>,
                                                        \* 'http://yo~hi '
      <<104, 116, 116, 112, 115, 58, 47, 47, 72, 105, 46, 121, 111, 47, 97, 32>>,
                                                        \* 'https://Hi.yo/a '
      <<104, 116, 116, 112, 58, 47, 47, 233, 32>> }     \* 'http://' U+00E9 ' '

RECURSIVE Concat(_)
Concat(chunks) == IF chunks = <<>> THEN <<>> ELSE Head(chunks) \o Concat(Tail(chunks))

Token(content, tag) == [content |-> content, tag |-> tag]

\* the behaviours of the syntax service: the credentials cannot be loaded;
\* analyze_syntax raises; the response holds no tokens; it tags 'yo' as
\* VERB, then 'Hi' as NOUN, then 'hi' as ADJ; it tags 'Hi' as NOUN, then
\* 'yo' with a value that is no Tag
Services ==
    { [credentials |-> "error", analyze |-> "ok", tokens |-> <<>>],
      [credentials |-> "ok", analyze |-> "error", tokens |-> <<>>],
      [credentials |-> "ok", analyze |-> "ok", tokens |-> <<>>],
      [credentials |-> "ok", analyze |-> "ok",
       tokens |-> <<Token(<<121, 111>>, 11), Token(<<72, 105>>, 6), Token(<<104, 105>>, 1)>>],
      [credentials |-> "ok", analyze |-> "ok",
       tokens |-> <<Token(<<72, 105>>, 6), Token(<<121, 111>>, 99)>>] }

InitLex ==
    /\ pc = "analyse"
    /\ \E n \in 0..MaxChunks : \E chunks \in [1..n -> Chunks] : text = Concat(chunks)
    /\ tagger \in Services
    /\ locals = None /\ word_freq = None /\ rows = None
    /\ email = None /\ result = None
    /\ x = None /\ cut = None /\ data = None /\ decoded = None

CallCreateWordFrequencyTable ==
    /\ pc = "analyse"
    /\ locals' = CreateWordFrequencyTable(text, tagger)
    /\ word_freq' = Return(locals'.word_freq)
    /\ pc' = "analysed"
    /\ UNCHANGED <<email, result, x, cut, data, decoded, text, tagger, rows>>

CallSaveWordFrequencyCsv ==
    /\ pc = "analysed"
    /\ rows' = SaveWordFrequencyCsv(word_freq.val)
    /\ pc' = "saved"
    /\ UNCHANGED <<email, result, x, cut, data, decoded, text, tagger, locals, word_freq>>

NextLex == CallCreateWordFrequencyTable \/ CallSaveWordFrequencyCsv

SpecLex == InitLex /\ [][NextLex]_vars

(***************************************************************************)
(* Properties of get_email_content.                                        *)
(***************************************************************************)
IsLeaf(part) == "parts" \notin DOMAIN part
IsText(part) == StartsWith(MimeTypeOf(part), TextPrefix)
HasBody(part) == "body" \in DOMAIN part
HasData(part) == HasBody(part) /\ "data" \in DOMAIN part.body
HasAttachmentId(part) == HasBody(part) /\ "attachmentId" \in DOMAIN part.body

\* the Parts of a tree in depth-first pre-order: a Part, then the Parts of
\* each of its children in list order
RECURSIVE PreOrder(_), PreOrderOfList(_)
PreOrder(part) ==
    <<part>> \o (IF IsLeaf(part) THEN <<>> ELSE PreOrderOfList(part.parts))

PreOrderOfList(parts) ==
    IF parts = <<>> THEN <<>> ELSE PreOrder(Head(parts)) \o PreOrderOfList(Tail(parts))

\* the Parts of a tree below its root
InnerParts(root) == IF IsLeaf(root) THEN <<>> ELSE PreOrderOfList(root.parts)

Extracted == pc = "extracted"

\* C1: for any Part tree, get_email_content does not raise and returns a
\* string that is not the empty string.
C1_NeverRaisesNeverEmpty ==
    Extracted => ~result.raised /\ result.val /= <<>>

\* C1 happens: a text Part whose data is no base64 was extracted, and its
\* error string is the result.
C1_Witness ==
    /\ Extracted
    /\ IsText(email.payload) /\ HasData(email.payload)
    /\ DecodeBody(email.payload.body.data).raised
    /\ ~result.raised
    /\ StartsWith(result.val, ErrorPrefix)

AllLeavesNonText(root) ==
    \A i \in 1..Len(PreOrder(root)) :
        IsLeaf(PreOrder(root)[i]) => ~IsText(PreOrder(root)[i])

NoInternalTextBody(root) ==
    \A i \in 1..Len(PreOrder(root)) :
        LET p == PreOrder(root)[i] IN ~IsLeaf(p) /\ IsText(p) => ~HasBody(p)

\* C2 as stated: if every leaf has a type that does not start with 'text/'
\* and the root has no body, the result is the sentinel, also when an
\* internal Part has a 'text/' type and a body.
C2_AsStated ==
    Extracted /\ AllLeavesNonText(email.payload) /\ ~HasBody(email.payload)
        => result = Return(NoContent)

\* C2 as amended: if every leaf has a type that does not start with 'text/',
\* no internal Part with a 'text/' type has a body, and the root has no
\* body, the result is the sentinel.
C2_SentinelWhenNoTextBody ==
    Extracted /\ AllLeavesNonText(email.payload) /\ NoInternalTextBody(email.payload)
              /\ ~HasBody(email.payload)
        => result = Return(NoContent)

\* C2 happens: the sentinel is returned for a tree whose leaf carries data
\* under a type that is not 'text/', below an internal 'text/' Part.
C2_Witness ==
    /\ Extracted
    /\ AllLeavesNonText(email.payload) /\ NoInternalTextBody(email.payload)
    /\ ~HasBody(email.payload)
    /\ \E i \in 1..Len(InnerParts(email.payload)) :
          LET p == InnerParts(email.payload)[i] IN ~IsLeaf(p) /\ IsText(p)
    /\ \E i \in 1..Len(InnerParts(email.payload)) :
          LET p == InnerParts(email.payload)[i] IN IsLeaf(p) /\ HasData(p)
    /\ result = Return(NoContent)

\* what a Part contributes, as C3 states it: its decoded data if it has
\* inline data, else the marker if it has an attachmentId, else nothing
ContributionAsStated(p) ==
    IF HasData(p) THEN <<DecodeEmailContent(p.body.data).val>>
    ELSE IF HasAttachmentId(p) THEN <<AttachmentMarker>>
    ELSE <<>>

\* the same, a decoded text that is empty contributing nothing
ContributionNonEmpty(p) ==
    IF HasData(p) /\ DecodeEmailContent(p.body.data).val = <<>> THEN <<>>
    ELSE ContributionAsStated(p)

RECURSIVE ContributionsAsStated(_), ContributionsNonEmpty(_)
ContributionsAsStated(ps) ==
    IF ps = <<>> THEN <<>>
    ELSE (IF IsText(Head(ps)) THEN ContributionAsStated(Head(ps)) ELSE <<>>)
         \o ContributionsAsStated(Tail(ps))

ContributionsNonEmpty(ps) ==
    IF ps = <<>> THEN <<>>
    ELSE (IF IsText(Head(ps)) THEN ContributionNonEmpty(Head(ps)) ELSE <<>>)
         \o ContributionsNonEmpty(Tail(ps))

\* C3 as stated: when a 'text/' Part contributes, the result is the
\* newline-join of the contributions of the 'text/' Parts in pre-order, a
\* Part with inline data contributing its decoded data.
C3_AsStated ==
    Extracted /\ ContributionsAsStated(PreOrder(email.payload)) /= <<>>
        => result = Return(Join(<<NL>>, ContributionsAsStated(PreOrder(email.payload))))

\* C3 as amended: the same, a Part with inline data contributing its
\* decoded data only when that is not the empty string.
C3_PreOrderJoin ==
    Extracted /\ ContributionsNonEmpty(PreOrder(email.payload)) /= <<>>
        => result = Return(Join(<<NL>>, ContributionsNonEmpty(PreOrder(email.payload))))

\* C3 happens: a root that is not 'text/' has a 'text/' child with data and
\* a 'text/' grandchild below it with an attachmentId, and both are in the
\* result, the child first.
C3_Witness ==
    /\ Extracted
    /\ ~IsText(email.payload) /\ ~IsLeaf(email.payload)
    /\ LET c == email.payload.parts[1]
       IN  /\ IsText(c) /\ HasData(c) /\ ~IsLeaf(c)
           /\ IsText(c.parts[1]) /\ ~HasData(c.parts[1]) /\ HasAttachmentId(c.parts[1])
           /\ result = Return(DecodeEmailContent(c.body.data).val \o <<NL>> \o AttachmentMarker)

(***************************************************************************)
(* Properties of decode_email_content.                                     *)
(***************************************************************************)
Contains(s, c) == \E i \in 1..Len(s) : s[i] = c

\* C4: the base64url encoding of a text, with 0 to 3 of its trailing
\* padding characters removed, is padded to a multiple of 4 and decodes to
\* the text, not to an error string.
C4_RoundTrip ==
    pc = "decoded" =>
        /\ (Len(data) + Padding(data)) % 4 = 0
        /\ Padding(data) \in 0..3
        /\ ~DecodeBody(data).raised
        /\ decoded = Return(x)

\* C4 happens: a text with a non-ASCII code point whose encoding has '-' or
\* '_', decoded after its padding was removed.
C4_Witness ==
    /\ pc = "decoded"
    /\ cut > 0 /\ Len(data) % 4 /= 0
    /\ Contains(data, 45) \/ Contains(data, 95)
    /\ \E i \in 1..Len(x) : x[i] > 127
    /\ decoded = Return(x)

(***************************************************************************)
(* Properties of create_word_frequency_table and save_word_frequency_csv.  *)
(***************************************************************************)
Analysed == pc = "analysed"

\* the tokens of a text, read off the text: a token starts at a word
\* character that follows no word character and runs to the last word
\* character before the next character that is none
TokenStarts(t) ==
    { i \in 1..Len(t) : IsWordChar(t[i]) /\ (i = 1 \/ ~IsWordChar(t[i - 1])) }

TokenAt(t, i) ==
    LET last == CHOOSE j \in i..Len(t) :
                    /\ \A k \in i..j : IsWordChar(t[k])
                    /\ j = Len(t) \/ ~IsWordChar(t[j + 1])
    IN  SubSeq(t, i, last)

\* number of occurrences of the token w in the text t
Occurrences(t, w) == Cardinality({ i \in TokenStarts(t) : TokenAt(t, i) = w })

IsUpper(c) == c \in 65..90 \/ c \in 192..214 \/ c \in 216..222

\* the indices of the lines whose trimmed content is the marker
MarkerLines(lines) == { k \in 1..Len(lines) : Strip(lines[k]) = Marker }

\* the text made of the lines before line k
Before(lines, k) == Join(<<NL>>, SubSeq(lines, 1, k - 1))

\* the count of word w in a table, 0 if it has no entry
CountIn(freq, w) == IF EntryOf(freq, w) = 0 THEN 0 ELSE freq[EntryOf(freq, w)].count

\* C5 as stated: text after a line of the input whose trimmed content is the
\* marker contributes no token and no count: every count of the table is
\* at most the count the table of the text before that line gives the word.
C5_AsStated ==
    Analysed =>
        \A k \in MarkerLines(SplitLines(text)) :
            \A e \in 1..Len(word_freq.val) :
                word_freq.val[e].count <=
                    CountIn(CreateWordFrequencyTable(Before(SplitLines(text), k), tagger).word_freq,
                            word_freq.val[e].word)

\* C5 as amended: text after a line of the cleaned text (tags and URLs
\* stripped) whose trimmed content is the marker contributes no token and no
\* count: every word of the table occurs at least count times as a token
\* of the cleaned text before that line.
C5_NothingAfterMarker ==
    Analysed =>
        \A k \in MarkerLines(SplitLines(locals.no_urls)) :
            \A e \in 1..Len(word_freq.val) :
                word_freq.val[e].count <=
                    Occurrences(Lower(Before(SplitLines(locals.no_urls), k)),
                                word_freq.val[e].word)

\* C5 happens: the cleaned text has a marker line with the token 'yo' before
\* it and the token 'hi' after it; 'yo' is in the table and 'hi' is not.
C5_Witness ==
    /\ Analysed
    /\ \E k \in MarkerLines(SplitLines(locals.no_urls)) :
          /\ Occurrences(Lower(Before(SplitLines(locals.no_urls), k)), <<121, 111>>) > 0
          /\ Occurrences(Lower(Before(SplitLines(locals.no_urls), k)), <<104, 105>>) = 0
    /\ Occurrences(Lower(locals.no_urls), <<104, 105>>) > 0
    /\ CountIn(word_freq.val, <<121, 111>>) > 0
    /\ CountIn(word_freq.val, <<104, 105>>) = 0

\* C6: every key of the table has at least 2 characters, all of them
\* alphanumeric (none an underscore), and is lower case: lower() leaves it
\* as it is.
C6_KeysAreTokens ==
    Analysed =>
        \A e \in 1..Len(word_freq.val) :
            LET w == word_freq.val[e].word
            IN  /\ Len(w) >= 2
                /\ \A i \in 1..Len(w) : IsAlnum(w[i]) /\ w[i] /= 95
                /\ w = [i \in 1..Len(w) |-> LowerChar(w[i])]

\* C6 happens: the text has the tokens 'a' and 'a_b' and an upper-case
\* letter, and the table is not empty.
C6_Witness ==
    /\ Analysed
    /\ Occurrences(locals.filtered_content, <<97>>) > 0
    /\ Occurrences(locals.filtered_content, <<97, 95, 98>>) > 0
    /\ \E i \in 1..Len(locals.filtered_content) : IsUpper(locals.filtered_content[i])
    /\ word_freq.val /= <<>>

RECURSIVE SumOfCounts(_)
SumOfCounts(freq) ==
    IF freq = <<>> THEN 0 ELSE Head(freq).count + SumOfCounts(Tail(freq))

\* C7: the counts of the table sum to the number of token occurrences of
\* the cleaned, truncated text that have at least 2 characters and are
\* alphanumeric, and every count is positive.
C7_CountsSum ==
    Analysed =>
        LET t == Lower(locals.filtered_content)
        IN  /\ SumOfCounts(word_freq.val) =
                   Cardinality({ i \in TokenStarts(t) :
                                   Len(TokenAt(t, i)) >= 2 /\ IsAlnumStr(TokenAt(t, i)) })
            /\ \A e \in 1..Len(word_freq.val) : word_freq.val[e].count >= 1

\* C7 happens: a word counted twice, beside tokens that are not counted.
C7_Witness ==
    /\ Analysed
    /\ \E e \in 1..Len(word_freq.val) : word_freq.val[e].count >= 2
    /\ SumOfCounts(word_freq.val) < Cardinality(TokenStarts(locals.filtered_content))

\* the index in the text's word list of the first occurrence of w
FirstOccurrence(words, w) ==
    CHOOSE i \in 1..Len(words) : words[i] = w /\ \A j \in 1..(i - 1) : words[j] /= w

\* C8: the rows after the header are non-increasing in count, and rows of
\* equal count are in the order in which their words first occur in the
\* text.
C8_RowsSorted ==
    pc = "saved" =>
        \A i, j \in 2..Len(rows) :
            i < j =>
                /\ rows[i][2] >= rows[j][2]
                /\ rows[i][2] = rows[j][2] =>
                       FirstOccurrence(locals.words, rows[i][1])
                           < FirstOccurrence(locals.words, rows[j][1])

\* C8 happens: rows were written, two of them with equal counts, for a
\* table whose first entry is not the one with the greatest count.
C8_Witness ==
    /\ pc = "saved"
    /\ Len(rows) = Len(word_freq.val) + 1
    /\ \E i, j \in 2..Len(rows) : i < j /\ rows[i][2] = rows[j][2]
    /\ rows[2][1] /= word_freq.val[1].word

\* the tagging step fails: the credentials cannot be loaded, the call
\* raises, the response has no tokens or a token whose tag is no Tag
TaggingFails(service) ==
    \/ service.credentials = "error"
    \/ service.analyze = "error"
    \/ service.tokens = <<>>
    \/ \E i \in 1..Len(service.tokens) : service.tokens[i].tag \notin 0..13

\* the tag the response gives the word w: that of its last token whose
\* lower-cased content is w, 'UNKNOWN' if there is none
TagGiven(tokens, w) ==
    LET at == { i \in 1..Len(tokens) : Lower(tokens[i].content) = w }
    IN  IF at = {} THEN "UNKNOWN"
        ELSE TagNames[tokens[CHOOSE i \in at : \A j \in at : j <= i].tag + 1]

WordsAndCounts(freq) ==
    [e \in 1..Len(freq) |-> <<freq[e].word, freq[e].count>>]

\* C9: create_word_frequency_table does not raise; its words and counts
\* are those it returns with a working syntax service; when the tagging step
\* fails every entry has the tag 'UNKNOWN'; otherwise an entry has the tag
\* the response gives its word, 'UNKNOWN' if it gives none.
C9_TaggingIsolated ==
    Analysed =>
        /\ ~word_freq.raised
        /\ \A service \in Services :
              ~TaggingFails(service) =>
                  WordsAndCounts(CreateWordFrequencyTable(text, service).word_freq)
                      = WordsAndCounts(word_freq.val)
        /\ \A e \in 1..Len(word_freq.val) :
              word_freq.val[e].pos =
                  IF TaggingFails(tagger) THEN "UNKNOWN"
                  ELSE TagGiven(tagger.tokens, word_freq.val[e].word)

\* C9 happens: the response held a token with a value that is no Tag after
\* a token for 'Hi', and the table has 'hi', tagged 'UNKNOWN'.
C9_Witness ==
    /\ Analysed
    /\ tagger.credentials = "ok" /\ tagger.analyze = "ok"
    /\ \E i \in 1..Len(tagger.tokens) : tagger.tokens[i].tag \notin 0..13
    /\ \E e \in 1..Len(word_freq.val) :
          /\ word_freq.val[e].word = <<104, 105>>
          /\ word_freq.val[e].pos = "UNKNOWN"
          /\ TagGiven(tagger.tokens, <<104, 105>>) /= "UNKNOWN"

\* the index after the URL that starts at index i: the next space, or the
\* end of the text
RECURSIVE UrlEnd(_, _)
UrlEnd(t, i) == IF i <= Len(t) /\ ~IsSpace(t[i]) THEN UrlEnd(t, i + 1) ELSE i

UrlStarts(t) == { i \in 1..Len(t) : SchemeLen(t, i) > 0 }

HasCharOutsideSet(t, i) ==
    \E k \in (i + SchemeLen(t, i))..(UrlEnd(t, i) - 1) : ~IsUrlChar(t[k])

\* C10 as stated: a URL that contains a character outside the allowed set
\* is left intact: if every URL of the text contains one, the URL-stripping
\* step removes nothing.
C10_AsStated ==
    Analysed /\ (\A i \in UrlStarts(locals.no_tags) : HasCharOutsideSet(locals.no_tags, i))
        => locals.no_urls = locals.no_tags

\* the indices the URL-stripping step removes: those of a scheme that is
\* followed by an allowed character, and of the allowed characters from
\* there up to the first character outside the set
RemovedByUrlStep(t) ==
    LET matched == { i \in UrlStarts(t) :
                        /\ i + SchemeLen(t, i) <= Len(t)
                        /\ IsUrlChar(t[i + SchemeLen(t, i)]) }
    IN  { p \in 1..Len(t) :
            \E i \in matched :
                /\ i <= p
                /\ \A k \in (i + SchemeLen(t, i))..p : IsUrlChar(t[k]) }

RECURSIVE KeepOutside(_, _, _)
KeepOutside(t, removed, i) ==
    IF i > Len(t) THEN <<>>
    ELSE (IF i \in removed THEN <<>> ELSE <<t[i]>>) \o KeepOutside(t, removed, i + 1)

\* C10 as amended: of a URL that contains a character outside the allowed
\* set, the URL-stripping step removes the scheme and the allowed characters
\* before the first character outside the set, and leaves the URL from
\* that character on; the URL is left intact only if the character right
\* after '://' is outside the set.
C10_UrlPrefixRemoved ==
    Analysed =>
        locals.no_urls = KeepOutside(locals.no_tags, RemovedByUrlStep(locals.no_tags), 1)

\* C10 happens: the text has a URL with '~' after allowed characters, and
\* the stripped text is shorter and still has the '~'.
C10_Witness ==
    /\ Analysed
    /\ \E i \in UrlStarts(locals.no_tags) :
          /\ HasCharOutsideSet(locals.no_tags, i)
          /\ IsUrlChar(locals.no_tags[i + SchemeLen(locals.no_tags, i)])
          /\ locals.no_tags[UrlRunEnd(locals.no_tags, i + SchemeLen(locals.no_tags, i))] = 126
    /\ Len(locals.no_urls) < Len(locals.no_tags)
    /\ Contains(locals.no_urls, 126)

=============================================================================
